---- MODULE Spec2Model ----
(***************************************************************************)
(* A model of generate-srt: the Segment Builder, the Timestamp Formatter,  *)
(* the Subtitle Codec and the Correction Merger as operators computed the  *)
(* way the Python code computes them, and the two batch programs           *)
(* (main.py, optimize.py) as a sequential state machine.                   *)
(*                                                                         *)
(* A Python str is a sequence of one-character strings.                    *)
(***************************************************************************)
EXTENDS Integers, Sequences, FiniteSets, TLC

VARIABLES
    res,            \* Segment Builder input: the recognizer result
    audio_dur_us,   \* Segment Builder input: media duration (microseconds of a second count)
    built,          \* what funasr_to_segments returned or raised
    ms_in,          \* srt_time input
    formatted,      \* srt_time output
    cues,           \* write_srt input
    blob,           \* the text write_srt stored
    parsed,         \* what parse_srt read back
    codec_pc,       \* position of the write/parse round trip
    subtitles,      \* apply_corrections input: parsed cues
    corrections,    \* apply_corrections input: correction records
    merged,         \* apply_corrections output
    mode,           \* which program runs: "generate" (main.py) or "optimize" (optimize.py)
    input_dir_ok,   \* the directory the program scans exists
    tools_ok,       \* shutil.which finds ffmpeg and ffprobe
    files,          \* video_files / srt_files: the batch's list
    idx,            \* the batch loop's position in files (1-based)
    pc,             \* the program's position
    attempts,       \* the files m4v_to_srt / optimize_srt was called for, in order
    outcome,        \* how the latest per-file call ended
    wavs,           \* base names whose temporary audio file is on disk
    srts,           \* base names whose output subtitle file was written
    reports,        \* base names whose report was written
    response,       \* optimize_srt: the response text's JSON value
    summary,        \* optimize_srt: summary
    opt_blob        \* the text write_optimized_srt stored

segVars == <<res, audio_dur_us, built>>
fmtVars == <<ms_in, formatted>>
codecVars == <<cues, blob, parsed, codec_pc>>
mergeVars == <<subtitles, corrections, merged>>
runVars == <<mode, input_dir_ok, tools_ok, files>>
loopVars == <<idx, pc, attempts, outcome>>
diskVars == <<wavs, srts, reports>>
llmVars == <<response, summary, opt_blob>>
batchVars == <<runVars, loopVars, diskVars, llmVars>>
vars == <<segVars, fmtVars, codecVars, mergeVars, batchVars>>

----------------------------------------------------------------------------
(* Python str helpers *)

Whitespace == {" ", "\t", "\n"}

RECURSIVE LStrip(_)
LStrip(s) ==
    IF s # <<>> /\ Head(s) \in Whitespace THEN LStrip(Tail(s)) ELSE s

RECURSIVE RStrip(_)
RStrip(s) ==
    IF s # <<>> /\ s[Len(s)] \in Whitespace
    THEN RStrip(SubSeq(s, 1, Len(s) - 1))
    ELSE s

Strip(s) == LStrip(RStrip(s))

RECURSIVE JoinWith(_, _)
JoinWith(sep, parts) ==
    IF parts = <<>> THEN <<>>
    ELSE IF Len(parts) = 1 THEN parts[1]
    ELSE parts[1] \o sep \o JoinWith(sep, Tail(parts))

\* s.split(sep) for a one-character sep: always at least one piece
RECURSIVE SplitOn(_, _)
SplitOn(c, s) ==
    IF \A k \in 1..Len(s) : s[k] # c THEN <<s>>
    ELSE LET k == CHOOSE j \in 1..Len(s) :
                      s[j] = c /\ \A m \in 1..(j - 1) : s[m] # c
         IN  <<SubSeq(s, 1, k - 1)>> \o SplitOn(c, SubSeq(s, k + 1, Len(s)))

----------------------------------------------------------------------------
(* Text Normalizer: main.py norm_text, strip_trailing_punc *)

RECURSIVE CollapseWs(_)
CollapseWs(s) ==
    IF s = <<>> THEN <<>>
    ELSE IF Head(s) \in Whitespace
         THEN <<" ">> \o CollapseWs(LStrip(s))
         ELSE <<Head(s)>> \o CollapseWs(Tail(s))

norm_text(s) == CollapseWs(Strip(s))

trailing == {",", ".", "!", "?", ";", ":", "~", "-", "'", ")", "]", ">"}

RECURSIVE StripPuncLoop(_)
StripPuncLoop(t) ==
    IF t # <<>> /\ t[Len(t)] \in trailing
    THEN StripPuncLoop(RStrip(SubSeq(t, 1, Len(t) - 1)))
    ELSE t

strip_trailing_punc(text) ==
    IF text = <<>> THEN text ELSE StripPuncLoop(RStrip(text))

----------------------------------------------------------------------------
(* Segment Builder: main.py funasr_to_segments *)

FloorMs == 400
SweepFloorMs == 400
TailGapMs == 800

Min(a, b) == IF a <= b THEN a ELSE b

\* int(round(x)) of a non-negative n/d: Python rounds halves to even
RoundHalfEven(n, d) ==
    LET q == n \div d
        r == n % d
    IN  IF 2 * r < d THEN q
        ELSE IF 2 * r > d THEN q + 1
        ELSE IF q % 2 = 0 THEN q ELSE q + 1

\* audio_ms = int(round(audio_dur_sec * 1000)), the duration given in microseconds
AudioMs(dur_us) == RoundHalfEven(dur_us, 1000)

Segment(st, ed, text) == [start_ms |-> st, end_ms |-> ed, text |-> text]

SentenceText(s) == strip_trailing_punc(norm_text(s.text))

\* the per-sentence repairs with the end clamp left out
RawSegmentNoClamp(s, audio_ms) ==
    LET st == s.start
        ed == IF s.end <= st THEN st + FloorMs ELSE s.end
    IN  Segment(IF st < 0 THEN 0 ELSE st, ed, SentenceText(s))

\* the per-sentence repairs
RawSegment(s, audio_ms) ==
    LET st == s.start
        ed == IF s.end <= st THEN st + FloorMs ELSE s.end
    IN  Segment(IF st < 0 THEN 0 ELSE st,
                IF ed > audio_ms THEN audio_ms ELSE ed,
                SentenceText(s))

\* the loop over sentences: non-dict records and empty texts are skipped
RECURSIVE CollectSegs(_, _)
CollectSegs(sentences, audio_ms) ==
    IF sentences = <<>> THEN <<>>
    ELSE LET s == Head(sentences)
             rest == CollectSegs(Tail(sentences), audio_ms)
         IN  IF ~s.isdict THEN rest
             ELSE IF SentenceText(s) = <<>> THEN rest
             ELSE <<RawSegment(s, audio_ms)>> \o rest

KeyLess(a, b) ==
    \/ a.start_ms < b.start_ms
    \/ a.start_ms = b.start_ms /\ a.end_ms < b.end_ms

\* x put behind every element whose key is not greater (a stable sort)
RECURSIVE InsertSorted(_, _)
InsertSorted(x, sorted) ==
    IF sorted = <<>> THEN <<x>>
    ELSE IF KeyLess(x, Head(sorted)) THEN <<x>> \o sorted
    ELSE <<Head(sorted)>> \o InsertSorted(x, Tail(sorted))

RECURSIVE SortSegsFrom(_, _)
SortSegsFrom(segs, acc) ==
    IF segs = <<>> THEN acc
    ELSE SortSegsFrom(Tail(segs), InsertSorted(Head(segs), acc))

\* segs.sort(key=lambda x: (x.start_ms, x.end_ms))
SortSegs(segs) == SortSegsFrom(segs, <<>>)

\* the sweep without the push of start_ms up to the previous end
RECURSIVE SweepNoPush(_, _, _)
SweepNoPush(segs, last_end, audio_ms) ==
    IF segs = <<>> THEN <<>>
    ELSE LET seg == Head(segs)
             st == seg.start_ms
             ed == IF seg.end_ms <= st
                   THEN Min(st + SweepFloorMs, audio_ms)
                   ELSE seg.end_ms
         IN  <<Segment(st, ed, seg.text)>> \o SweepNoPush(Tail(segs), ed, audio_ms)

\* the monotonic sweep
RECURSIVE Sweep(_, _, _)
Sweep(segs, last_end, audio_ms) ==
    IF segs = <<>> THEN <<>>
    ELSE LET seg == Head(segs)
             st == IF seg.start_ms < last_end THEN last_end ELSE seg.start_ms
             ed == IF seg.end_ms <= st
                   THEN Min(st + SweepFloorMs, audio_ms)
                   ELSE seg.end_ms
         IN  <<Segment(st, ed, seg.text)>> \o Sweep(Tail(segs), ed, audio_ms)

\* the final-cue extension with a gap of exactly TailGapMs left alone
ExtendLastStrict(fixed, audio_ms) ==
    IF fixed # <<>> /\ audio_ms - fixed[Len(fixed)].end_ms > TailGapMs
    THEN [fixed EXCEPT ![Len(fixed)].end_ms = audio_ms]
    ELSE fixed

\* the final cue pulled to the end of the audio
ExtendLast(fixed, audio_ms) ==
    IF fixed # <<>> /\ audio_ms - fixed[Len(fixed)].end_ms >= TailGapMs
    THEN [fixed EXCEPT ![Len(fixed)].end_ms = audio_ms]
    ELSE fixed

Raised(kind) == [status |-> kind, segs |-> <<>>]
Returned(segs) == [status |-> "returned", segs |-> segs]

\* an empty sentence_info answered with an empty cue list instead of an error
funasr_to_segments_noraise(r, dur_us) ==
    LET audio_ms == AudioMs(dur_us)
    IN  IF ~r.wellformed THEN Raised("RuntimeError: unexpected format")
        ELSE Returned(ExtendLast(
                 Sweep(SortSegs(CollectSegs(
                     IF r.has_sentence_info THEN r.sentence_info ELSE <<>>,
                     audio_ms)), 0, audio_ms),
                 audio_ms))

funasr_to_segments(r, dur_us) ==
    LET audio_ms == AudioMs(dur_us)
    IN  IF ~r.wellformed THEN Raised("RuntimeError: unexpected format")
        ELSE IF ~r.has_sentence_info \/ r.sentence_info = <<>>
        THEN Raised("RuntimeError: no sentence_info")
        ELSE Returned(ExtendLast(
                 Sweep(SortSegs(CollectSegs(r.sentence_info, audio_ms)),
                       0, audio_ms),
                 audio_ms))

----------------------------------------------------------------------------
(* The Segment Builder on its own: every recognizer result and duration of *)
(* the sample sets below, and one step that builds.                        *)

MaxSentences == 2

TimeChoices == {-400, 0, 400, 1200}

\* " a  b." normalizes to "a b"; " ." normalizes to the empty text
TextChoices == {<<" ", "a", " ", " ", "b", ".">>, <<" ", ".">>}

\* 0 s, 0.3996 s, 0.8 s, 1.199 s, 1.2004 s, 2 s, 2.0006 s (no value halfway
\* between two milliseconds: there the float product decides, not the decimal)
DurChoices == {0, 399600, 800000, 1199000, 1200400, 2000000, 2000600}

NonDictSentence == [isdict |-> FALSE, text |-> <<>>, start |-> 0, end |-> 0]

SentenceChoices ==
    {NonDictSentence} \cup
    [isdict : {TRUE}, text : TextChoices, start : TimeChoices, end : TimeChoices]

SeqsUpTo(S, n) == UNION {[1..k -> S] : k \in 0..n}

NoTokens == [has_timestamp |-> FALSE, text |-> <<>>, timestamp |-> <<>>]

\* the transcript "a b" with one [start, end] pair per non-space character
SomeTokens ==
    [has_timestamp |-> TRUE, text |-> <<"a", " ", "b">>,
     timestamp |-> <<<<0, 400>>, <<400, 1200>>>>]

Result(wf, has_si, si, tok) ==
    [wellformed |-> wf, has_sentence_info |-> has_si, sentence_info |-> si,
     has_timestamp |-> tok.has_timestamp, text |-> tok.text,
     timestamp |-> tok.timestamp]

MalformedResult == Result(FALSE, FALSE, <<>>, NoTokens)

\* sentence_info missing or empty, with and without token-level timestamps
NoSentenceResults ==
    {Result(TRUE, has_si, <<>>, tok) :
        has_si \in BOOLEAN, tok \in {NoTokens, SomeTokens}}

SentenceResults ==
    {Result(TRUE, TRUE, si, NoTokens) :
        si \in SeqsUpTo(SentenceChoices, MaxSentences) \ {<<>>}}

SegResults == {MalformedResult} \cup NoSentenceResults \cup SentenceResults

Pending == [status |-> "pending", segs |-> <<>>]

SegIdle == res = MalformedResult /\ audio_dur_us = 0 /\ built = Pending

SegInit ==
    /\ res \in SegResults
    /\ audio_dur_us \in DurChoices
    /\ built = Pending

Build ==
    /\ built = Pending
    /\ built' = funasr_to_segments(res, audio_dur_us)
    /\ UNCHANGED <<res, audio_dur_us>>

----------------------------------------------------------------------------
(* Timestamp Formatter: main.py srt_time *)

DigitChar(d) == <<"0", "1", "2", "3", "4", "5", "6", "7", "8", "9">>[d + 1]

\* str(n) of a non-negative integer
RECURSIVE Dec(_)
Dec(n) == IF n < 10 THEN <<DigitChar(n)>> ELSE Dec(n \div 10) \o <<DigitChar(n % 10)>>

\* f"{n:0{w}d}": zero-padded to at least w digits, never cut
RECURSIVE ZeroPad(_, _)
ZeroPad(digits, w) == IF Len(digits) >= w THEN digits ELSE ZeroPad(<<"0">> \o digits, w)

\* the hour field wrapped at a day
srt_time_wrapped(ms) ==
    LET m == IF ms < 0 THEN 0 ELSE ms
        hh == (m \div 3600000) % 24
        mm == (m % 3600000) \div 60000
        ss == (m % 60000) \div 1000
        mmm == m % 1000
    IN  ZeroPad(Dec(hh), 2) \o <<":">> \o ZeroPad(Dec(mm), 2) \o <<":">>
        \o ZeroPad(Dec(ss), 2) \o <<",">> \o ZeroPad(Dec(mmm), 3)

srt_time(ms) ==
    LET m == IF ms < 0 THEN 0 ELSE ms
        hh == m \div 3600000
        mm == (m % 3600000) \div 60000
        ss == (m % 60000) \div 1000
        mmm == m % 1000
    IN  ZeroPad(Dec(hh), 2) \o <<":">> \o ZeroPad(Dec(mm), 2) \o <<":">>
        \o ZeroPad(Dec(ss), 2) \o <<",">> \o ZeroPad(Dec(mmm), 3)

----------------------------------------------------------------------------
(* Subtitle Codec: main.py write_srt, optimize.py parse_srt and            *)
(* write_optimized_srt                                                      *)

Arrow == <<" ", "-", "-", ">", " ">>

NL == <<"\n">>

RECURSIVE SrtLines(_, _)
SrtLines(segs, i) ==
    IF segs = <<>> THEN <<>>
    ELSE <<Dec(i),
           srt_time(Head(segs).start_ms) \o Arrow \o srt_time(Head(segs).end_ms),
           Head(segs).text,
           <<>>>> \o SrtLines(Tail(segs), i + 1)

\* the blank separator line left out
RECURSIVE SrtLinesNoBlank(_, _)
SrtLinesNoBlank(segs, i) ==
    IF segs = <<>> THEN <<>>
    ELSE <<Dec(i),
           srt_time(Head(segs).start_ms) \o Arrow \o srt_time(Head(segs).end_ms),
           Head(segs).text>> \o SrtLinesNoBlank(Tail(segs), i + 1)

write_srt_noblank(segs) == JoinWith(NL, SrtLinesNoBlank(segs, 1))

\* the text write_srt stores in out_srt
write_srt(segs) == JoinWith(NL, SrtLines(segs, 1))

\* the number of newlines s starts with
RECURSIVE LeadingNewlines(_)
LeadingNewlines(s) ==
    IF s # <<>> /\ Head(s) = "\n" THEN 1 + LeadingNewlines(Tail(s)) ELSE 0

\* re.split(r'\n\n+', s)
RECURSIVE SplitBlocks(_)
SplitBlocks(s) ==
    IF \A k \in 1..(Len(s) - 1) : ~(s[k] = "\n" /\ s[k + 1] = "\n") THEN <<s>>
    ELSE LET k == CHOOSE j \in 1..(Len(s) - 1) :
                      /\ s[j] = "\n" /\ s[j + 1] = "\n"
                      /\ \A m \in 1..(j - 1) : ~(s[m] = "\n" /\ s[m + 1] = "\n")
             rest == SubSeq(s, k, Len(s))
             n == LeadingNewlines(rest)
         IN  <<SubSeq(s, 1, k - 1)>> \o SplitBlocks(SubSeq(rest, n + 1, Len(rest)))

Subtitle(index, timestamp, original, corrected) ==
    [index |-> index, timestamp |-> timestamp,
     original |-> original, corrected |-> corrected]

RECURSIVE ParseBlocks(_)
ParseBlocks(blocks) ==
    IF blocks = <<>> THEN <<>>
    ELSE LET lines == SplitOn("\n", Strip(Head(blocks)))
             text == Strip(JoinWith(NL, SubSeq(lines, 3, Len(lines))))
         IN  (IF Len(lines) >= 3
              THEN <<Subtitle(Strip(lines[1]), Strip(lines[2]), text, text)>>
              ELSE <<>>) \o ParseBlocks(Tail(blocks))

\* parse_srt on the content of the file
parse_srt(content) == ParseBlocks(SplitBlocks(Strip(content)))

RECURSIVE OptimizedLines(_)
OptimizedLines(subs) ==
    IF subs = <<>> THEN <<>>
    ELSE <<Head(subs).index, Head(subs).timestamp, Head(subs).corrected, <<>>>>
         \o OptimizedLines(Tail(subs))

\* the text write_optimized_srt stores in output_path
write_optimized_srt(subs) == JoinWith(NL, OptimizedLines(subs))

----------------------------------------------------------------------------
(* Correction Merger: optimize.py apply_corrections.  The corrections      *)
(* value is whatever JSON value the response held: its kind, and the items *)
(* iterating it yields (a str yields characters, an object its keys).      *)

\* the first item the dict comprehension cannot take, 0 when there is none
FirstBad(items) ==
    IF \A k \in 1..Len(items) : items[k].isdict /\ items[k].has_index THEN 0
    ELSE CHOOSE k \in 1..Len(items) :
             /\ ~(items[k].isdict /\ items[k].has_index)
             /\ \A m \in 1..(k - 1) : items[m].isdict /\ items[m].has_index

\* correction_map[idx]: a later record replaces an earlier one of the same index
FirstWith(items, key) ==
    IF \A k \in 1..Len(items) : items[k].index # key THEN 0
    ELSE CHOOSE k \in 1..Len(items) :
             /\ items[k].index = key
             /\ \A m \in 1..(k - 1) : items[m].index # key

LastWith(items, key) ==
    IF \A k \in 1..Len(items) : items[k].index # key THEN 0
    ELSE CHOOSE k \in 1..Len(items) :
             /\ items[k].index = key
             /\ \A m \in (k + 1)..Len(items) : items[m].index # key

MergeOne(sub, items, k) ==
    IF k = 0
    THEN Subtitle(sub.index, sub.timestamp, sub.original, sub.original)
    ELSE Subtitle(sub.index, sub.timestamp, sub.original, items[k].corrected)

Failed(kind) == [status |-> kind, subs |-> <<>>]

apply_corrections_first(subs, corr) ==
    [status |-> "returned",
     subs |-> [i \in 1..Len(subs) |->
                  MergeOne(subs[i], corr.items, FirstWith(corr.items, subs[i].index))]]

apply_corrections(subs, corr) ==
    LET items == corr.items
        bad == FirstBad(items)
    IN  IF bad # 0
        THEN Failed(IF items[bad].isdict THEN "KeyError" ELSE "TypeError")
        ELSE IF \E i \in 1..Len(subs) :
                    /\ LastWith(items, subs[i].index) # 0
                    /\ ~items[LastWith(items, subs[i].index)].has_corrected
        THEN Failed("KeyError")
        ELSE [status |-> "returned",
              subs |-> [i \in 1..Len(subs) |->
                           MergeOne(subs[i], items, LastWith(items, subs[i].index))]]

----------------------------------------------------------------------------
(* The pure components on their own: inputs from the sample sets below,    *)
(* one step per function applied.                                          *)

MaxHours == 100

HourChoices == {0, 1, 23, 24, MaxHours - 1, MaxHours}

MsChoices ==
    {-5000, -1} \cup
    {h * 3600000 + m * 60000 + sec * 1000 + k :
        h \in HourChoices, m \in {0, 59}, sec \in {0, 59}, k \in {0, 7, 999}}

FmtIdle == ms_in = 0 /\ formatted = <<>>

FmtInit == ms_in \in MsChoices /\ formatted = <<>>

Format ==
    /\ formatted = <<>>
    /\ formatted' = srt_time(ms_in)
    /\ UNCHANGED ms_in

MaxCues == 2

\* "a", "a b", "12" keep the cue invariants; "", " a", "a\n\nb" do not
CueTextChoices ==
    {<<"a">>, <<"a", " ", "b">>, <<"1", "2">>,
     <<>>, <<" ", "a">>, <<"a", "\n", "\n", "b">>}

CueTimeChoices == {<<0, 400>>, <<400, 3661001>>, <<1200, 1200>>}

CueChoices ==
    {Segment(t[1], t[2], x) : t \in CueTimeChoices, x \in CueTextChoices}

CodecIdle == cues = <<>> /\ blob = <<>> /\ parsed = <<>> /\ codec_pc = "idle"

CodecInit ==
    /\ cues \in SeqsUpTo(CueChoices, MaxCues)
    /\ blob = <<>>
    /\ parsed = <<>>
    /\ codec_pc = "start"

Write ==
    /\ codec_pc = "start"
    /\ blob' = write_srt(cues)
    /\ codec_pc' = "written"
    /\ UNCHANGED <<cues, parsed>>

Parse ==
    /\ codec_pc = "written"
    /\ parsed' = parse_srt(blob)
    /\ codec_pc' = "parsed"
    /\ UNCHANGED <<cues, blob>>

MaxSubs == 2
MaxCorrections == 3

IndexChoices == {<<"1">>, <<"2">>, <<"0", "1">>}

SampleTimestamp == srt_time(0) \o Arrow \o srt_time(400)

SubChoices ==
    {Subtitle(ix, SampleTimestamp, x, x) : ix \in IndexChoices, x \in {<<"a">>, <<"b">>}}

CorrectionRecord(ix, x) ==
    [isdict |-> TRUE, has_index |-> TRUE, index |-> ix,
     has_corrected |-> TRUE, corrected |-> x, has_rest |-> TRUE]

RecordChoices ==
    {CorrectionRecord(ix, x) : ix \in IndexChoices, x \in {<<"x">>, <<"y">>}}

JsonList(items) == [kind |-> "list", items |-> items]

NotMerged == [status |-> "pending", subs |-> <<>>]

MergeIdle == subtitles = <<>> /\ corrections = JsonList(<<>>) /\ merged = NotMerged

MergeInit ==
    /\ subtitles \in SeqsUpTo(SubChoices, MaxSubs)
    /\ corrections \in {JsonList(items) : items \in SeqsUpTo(RecordChoices, MaxCorrections)}
    /\ merged = NotMerged

Merge ==
    /\ merged = NotMerged
    /\ merged' = apply_corrections(subtitles, corrections)
    /\ UNCHANGED <<subtitles, corrections>>

----------------------------------------------------------------------------
(* The batch programs: main.py __main__ with m4v_to_srt, and optimize.py   *)
(* __main__ with optimize_srt.  One run is one program over one list.      *)

MaxFiles == 2

File(base, ext) == [base |-> base, ext |-> ext]

NoFile == File("", "")

FileChoices(m) ==
    IF m = "generate"
    THEN {File("a", "mp4"), File("a", "mov"), File("b", "mp4")}
    ELSE {File("a", "srt"), File("b", "srt"), File("c", "srt")}

\* os.listdir names each file once
DistinctSeqs(S, n) ==
    {q \in SeqsUpTo(S, n) : \A i, j \in 1..Len(q) : i # j => q[i] # q[j]}

\* 1.0 s and 0.4 s
BatchDurChoices == {1000000, 400000}

Sentence(text, st, ed) == [isdict |-> TRUE, text |-> text, start |-> st, end |-> ed]

BatchResults ==
    {MalformedResult,
     Result(TRUE, FALSE, <<>>, NoTokens),
     Result(TRUE, TRUE, <<>>, NoTokens),
     Result(TRUE, FALSE, <<>>, SomeTokens),
     Result(TRUE, TRUE,
            <<Sentence(<<"a", ".">>, 0, 500), Sentence(<<"b">>, 500, 900)>>, NoTokens),
     Result(TRUE, TRUE,
            <<Sentence(<<"b">>, 300, 900), Sentence(<<"a", " ", "b">>, 0, 500)>>, NoTokens)}

\* the subtitle files optimize.py may find: no cue, one cue, two cues
InputSrtChoices ==
    {write_srt(<<>>),
     write_srt(<<Segment(0, 500, <<"a">>)>>),
     write_srt(<<Segment(0, 500, <<"a">>), Segment(500, 900, <<"a", " ", "b">>)>>)}

JsonValue(kind, items) == [kind |-> kind, items |-> items]

NonDictItem ==
    [isdict |-> FALSE, has_index |-> FALSE, index |-> <<>>,
     has_corrected |-> FALSE, corrected |-> <<>>, has_rest |-> FALSE]

Item(has_ix, ix, has_c, has_rest) ==
    [isdict |-> TRUE, has_index |-> has_ix, index |-> ix,
     has_corrected |-> has_c, corrected |-> <<"x">>, has_rest |-> has_rest]

\* the two fixed summaries of optimize_srt (Chinese in the source)
ParseFailedNote == "parse failed"
NoSummaryNote == "no summary"

Response(json, has_c, c, has_s) ==
    [json |-> json, has_corrections |-> has_c, corrections |-> c,
     has_summary |-> has_s, summary |-> "summary"]

NoResponse == Response("none", FALSE, JsonList(<<>>), FALSE)

\* the values 'corrections' may hold in a JSON object
CorrectionsChoices ==
    {JsonValue("null", <<>>), JsonValue("number", <<>>),
     JsonValue("string", <<>>), JsonValue("string", <<NonDictItem>>),
     JsonValue("object", <<NonDictItem>>),
     JsonList(<<NonDictItem>>),
     JsonList(<<Item(FALSE, <<>>, TRUE, TRUE)>>),
     JsonList(<<Item(TRUE, <<"1">>, FALSE, TRUE)>>),
     JsonList(<<Item(TRUE, <<"9">>, FALSE, TRUE)>>),
     JsonList(<<Item(TRUE, <<"1">>, TRUE, FALSE)>>),
     JsonList(<<>>),
     JsonList(<<CorrectionRecord(<<"1">>, <<"x">>)>>),
     JsonList(<<CorrectionRecord(<<"2">>, <<"y">>), CorrectionRecord(<<"7">>, <<"x">>)>>)}

ResponseChoices ==
    {Response("invalid", FALSE, JsonList(<<>>), FALSE),
     Response("array", FALSE, JsonList(<<>>), FALSE),
     Response("scalar", FALSE, JsonList(<<>>), FALSE),
     Response("object", FALSE, JsonList(<<>>), FALSE)}
    \cup {Response("object", TRUE, c, TRUE) : c \in CorrectionsChoices}

NoOutcome == [file |-> NoFile, result |-> "none", srt |-> FALSE, report |-> FALSE]

BatchIdle ==
    /\ mode = "none" /\ input_dir_ok = FALSE /\ tools_ok = FALSE /\ files = <<>>
    /\ idx = 0 /\ pc = "idle" /\ attempts = <<>> /\ outcome = NoOutcome
    /\ wavs = {} /\ srts = {} /\ reports = {}
    /\ response = NoResponse /\ summary = "" /\ opt_blob = <<>>

Init ==
    /\ mode \in {"generate", "optimize"}
    /\ input_dir_ok \in BOOLEAN
    /\ tools_ok \in BOOLEAN
    /\ files \in (IF input_dir_ok THEN DistinctSeqs(FileChoices(mode), MaxFiles) ELSE {<<>>})
    /\ idx = 0 /\ pc = "scan" /\ attempts = <<>> /\ outcome = NoOutcome
    /\ wavs = {} /\ srts = {} /\ reports = {}
    /\ response = NoResponse /\ summary = "" /\ opt_blob = <<>>
    /\ SegIdle /\ FmtIdle /\ CodecIdle /\ MergeIdle

\* the locals of a per-file call, as they are before the call
FrameReset ==
    /\ res' = MalformedResult /\ audio_dur_us' = 0 /\ built' = Pending
    /\ blob' = <<>>
    /\ subtitles' = <<>> /\ corrections' = JsonList(<<>>) /\ merged' = NotMerged
    /\ response' = NoResponse /\ summary' = "" /\ opt_blob' = <<>>

frameVars == <<segVars, blob, mergeVars, llmVars>>
unusedVars == <<fmtVars, cues, parsed, codec_pc>>

\* the scan before the loop: exit(1) without the input directory, exit(0)
\* with nothing to process
Scan ==
    /\ pc = "scan"
    /\ \/ /\ mode = "generate" /\ ~input_dir_ok
          /\ pc' = "exit1"
       \/ /\ ~(mode = "generate" /\ ~input_dir_ok) /\ files = <<>>
          /\ pc' = "exit0"
       \/ /\ files # <<>>
          /\ pc' = "loop"
    /\ idx' = 1
    /\ UNCHANGED <<attempts, outcome, runVars, diskVars, frameVars, unusedVars>>

\* the for statement: the next file's call starts, or the loop ends
LoopNext ==
    /\ pc = "loop"
    /\ \/ /\ idx > Len(files)
          /\ pc' = "done"
          /\ UNCHANGED <<attempts, frameVars>>
       \/ /\ idx <= Len(files)
          /\ attempts' = Append(attempts, files[idx])
          /\ pc' = IF mode = "generate" THEN "g_check" ELSE "o_exists"
          /\ FrameReset
    /\ UNCHANGED <<idx, outcome, runVars, diskVars, unusedVars>>

\* an exception ends the whole run
CaughtAbort(kind, srt_written) ==
    /\ outcome' = [file |-> files[idx], result |-> kind,
                   srt |-> srt_written, report |-> FALSE]
    /\ pc' = "done"
    /\ idx' = idx

\* except Exception: the failure is printed and the loop continues
Caught(kind, srt_written) ==
    /\ outcome' = [file |-> files[idx], result |-> kind,
                   srt |-> srt_written, report |-> FALSE]
    /\ pc' = "loop"
    /\ idx' = idx + 1

\* the call returns
Completed(report_written) ==
    /\ outcome' = [file |-> files[idx], result |-> "ok",
                   srt |-> TRUE, report |-> report_written]
    /\ pc' = "loop"
    /\ idx' = idx + 1

Base == files[idx].base

(* m4v_to_srt *)

GCheck ==
    /\ pc = "g_check"
    /\ \/ /\ ~tools_ok
          /\ Caught("RuntimeError: ffmpeg / ffprobe not found", FALSE)
       \/ /\ tools_ok
          /\ Caught("FileNotFoundError", FALSE)
       \/ /\ tools_ok
          /\ pc' = "g_extract"
          /\ UNCHANGED <<idx, outcome>>
    /\ UNCHANGED <<attempts, runVars, diskVars, frameVars, unusedVars>>

\* ffmpeg writes the temporary audio; a failed run may leave a file behind
GExtract ==
    /\ pc = "g_extract"
    /\ \/ /\ wavs' = wavs \cup {Base}
          /\ pc' = "g_probe"
          /\ UNCHANGED <<idx, outcome>>
       \/ /\ wavs' \in {wavs, wavs \cup {Base}}
          /\ Caught("RuntimeError: Command failed", FALSE)
    /\ UNCHANGED <<attempts, runVars, srts, reports, frameVars, unusedVars>>

GProbe ==
    /\ pc = "g_probe"
    /\ \/ /\ audio_dur_us' \in BatchDurChoices
          /\ pc' = "g_recognize"
          /\ UNCHANGED <<idx, outcome>>
       \/ /\ Caught("RuntimeError: Command failed", FALSE)
          /\ UNCHANGED audio_dur_us
    /\ UNCHANGED <<attempts, runVars, diskVars, res, built, blob, mergeVars,
                   llmVars, unusedVars>>

GRecognize ==
    /\ pc = "g_recognize"
    /\ \/ /\ res' \in BatchResults
          /\ pc' = "g_segments"
          /\ UNCHANGED <<idx, outcome>>
       \/ /\ Caught("Exception: recognizer", FALSE)
          /\ UNCHANGED res
    /\ UNCHANGED <<attempts, runVars, diskVars, audio_dur_us, built, blob,
                   mergeVars, llmVars, unusedVars>>

GSegments ==
    /\ pc = "g_segments"
    /\ LET b == funasr_to_segments(res, audio_dur_us)
       IN  /\ built' = b
           /\ \/ /\ b.status = "returned"
                 /\ pc' = "g_write"
                 /\ UNCHANGED <<idx, outcome>>
              \/ /\ b.status # "returned"
                 /\ Caught(b.status, FALSE)
    /\ UNCHANGED <<attempts, runVars, diskVars, res, audio_dur_us, blob,
                   mergeVars, llmVars, unusedVars>>

GWrite ==
    /\ pc = "g_write"
    /\ \/ /\ blob' = write_srt(built.segs)
          /\ srts' = srts \cup {Base}
          /\ Completed(FALSE)
       \/ /\ Caught("OSError", FALSE)
          /\ UNCHANGED <<blob, srts>>
    /\ UNCHANGED <<attempts, runVars, wavs, reports, segVars, mergeVars,
                   llmVars, unusedVars>>

(* optimize_srt *)

OExists ==
    /\ pc = "o_exists"
    /\ \/ /\ Caught("FileNotFoundError", FALSE)
       \/ /\ pc' = "o_parse"
          /\ UNCHANGED <<idx, outcome>>
    /\ UNCHANGED <<attempts, runVars, diskVars, frameVars, unusedVars>>

OParse ==
    /\ pc = "o_parse"
    /\ blob' \in InputSrtChoices
    /\ subtitles' = parse_srt(blob')
    /\ pc' = "o_call"
    /\ UNCHANGED <<idx, attempts, outcome, runVars, diskVars, segVars,
                   corrections, merged, llmVars, unusedVars>>

OCall ==
    /\ pc = "o_call"
    /\ \/ /\ response' \in ResponseChoices
          /\ pc' = "o_json"
          /\ UNCHANGED <<idx, outcome>>
       \/ /\ Caught("APIError", FALSE)
          /\ UNCHANGED response
    /\ UNCHANGED <<attempts, runVars, diskVars, segVars, blob, mergeVars,
                   summary, opt_blob, unusedVars>>

\* json.loads, the two .get calls and len(corrections)
OJson ==
    /\ pc = "o_json"
    /\ \/ /\ response.json = "invalid"
          /\ corrections' = JsonList(<<>>)
          /\ summary' = ParseFailedNote
          /\ pc' = "o_apply"
          /\ UNCHANGED <<idx, outcome>>
       \/ /\ response.json \in {"array", "scalar"}
          /\ Caught("AttributeError", FALSE)
          /\ UNCHANGED <<corrections, summary>>
       \/ /\ response.json = "object"
          /\ corrections' = IF response.has_corrections
                            THEN response.corrections ELSE JsonList(<<>>)
          /\ summary' = IF response.has_summary
                        THEN response.summary ELSE NoSummaryNote
          /\ IF corrections'.kind \in {"null", "number"}
             THEN Caught("TypeError", FALSE)
             ELSE pc' = "o_apply" /\ UNCHANGED <<idx, outcome>>
    /\ UNCHANGED <<attempts, runVars, diskVars, segVars, blob, subtitles,
                   merged, response, opt_blob, unusedVars>>

OApply ==
    /\ pc = "o_apply"
    /\ LET m == apply_corrections(subtitles, corrections)
       IN  /\ merged' = m
           /\ \/ /\ m.status = "returned"
                 /\ pc' = "o_write"
                 /\ UNCHANGED <<idx, outcome>>
              \/ /\ m.status # "returned"
                 /\ Caught(m.status, FALSE)
    /\ UNCHANGED <<attempts, runVars, diskVars, segVars, blob, subtitles,
                   corrections, llmVars, unusedVars>>

OWrite ==
    /\ pc = "o_write"
    /\ \/ /\ opt_blob' = write_optimized_srt(merged.subs)
          /\ srts' = srts \cup {Base}
          /\ pc' = "o_report"
          /\ UNCHANGED <<idx, outcome>>
       \/ /\ Caught("OSError", FALSE)
          /\ UNCHANGED <<opt_blob, srts>>
    /\ UNCHANGED <<attempts, runVars, wavs, reports, segVars, blob, mergeVars,
                   response, summary, unusedVars>>

\* write_report reads index, original, corrected and reason of every record
OReport ==
    /\ pc = "o_report"
    /\ \/ /\ \E k \in 1..Len(corrections.items) :
                 ~(corrections.items[k].has_corrected /\ corrections.items[k].has_rest)
          /\ Caught("KeyError", TRUE)
          /\ UNCHANGED reports
       \/ /\ \A k \in 1..Len(corrections.items) :
                 corrections.items[k].has_corrected /\ corrections.items[k].has_rest
          /\ reports' = reports \cup {Base}
          /\ Completed(TRUE)
    /\ UNCHANGED <<attempts, runVars, wavs, srts, frameVars, unusedVars>>

Next ==
    \/ Scan \/ LoopNext
    \/ GCheck \/ GExtract \/ GProbe \/ GRecognize \/ GSegments \/ GWrite
    \/ OExists \/ OParse \/ OCall \/ OJson \/ OApply \/ OWrite \/ OReport

Spec == Init /\ [][Next]_vars

StepsButSegments ==
    \/ Scan \/ LoopNext
    \/ GCheck \/ GExtract \/ GProbe \/ GRecognize \/ GWrite
    \/ OExists \/ OParse \/ OCall \/ OJson \/ OApply \/ OWrite \/ OReport

\* A sequential program keeps running while it has a next step: weak
\* fairness of every step, the external calls taken to return.  GSegments is
\* enabled exactly when pc = "g_segments", and its weak fairness is written
\* with that condition.
FairSpec ==
    /\ Spec
    /\ WF_vars(StepsButSegments)
    /\ ([]<>(pc # "g_segments") \/ []<><<GSegments>>_vars)

SegNext == Build /\ UNCHANGED <<fmtVars, codecVars, mergeVars, batchVars>>

SegSpecInit == SegInit /\ FmtIdle /\ CodecIdle /\ MergeIdle /\ BatchIdle

SegSpec == SegSpecInit /\ [][SegNext]_vars

FmtNext == Format /\ UNCHANGED <<segVars, codecVars, mergeVars, batchVars>>

FmtSpecInit == FmtInit /\ SegIdle /\ CodecIdle /\ MergeIdle /\ BatchIdle

FmtSpec == FmtSpecInit /\ [][FmtNext]_vars

CodecNext ==
    \/ Write /\ UNCHANGED <<segVars, fmtVars, mergeVars, batchVars>>
    \/ Parse /\ UNCHANGED <<segVars, fmtVars, mergeVars, batchVars>>

CodecSpecInit == CodecInit /\ SegIdle /\ FmtIdle /\ MergeIdle /\ BatchIdle

CodecSpec == CodecSpecInit /\ [][CodecNext]_vars

MergeNext == Merge /\ UNCHANGED <<segVars, fmtVars, codecVars, batchVars>>

MergeSpecInit == MergeInit /\ SegIdle /\ FmtIdle /\ CodecIdle /\ BatchIdle

MergeSpec == MergeSpecInit /\ [][MergeNext]_vars

----------------------------------------------------------------------------
(* Properties of the Segment Builder, checked under SegSpec *)

SegsReturned == built.status = "returned"

SentenceMode(r) == r.wellformed /\ r.has_sentence_info /\ r.sentence_info # <<>>

\* C1: every cue funasr_to_segments returns has end_ms > start_ms, whatever
\* the integer start/end values and the media duration.
C1_EndAfterStart ==
    SegsReturned =>
        \A i \in 1..Len(built.segs) : built.segs[i].end_ms > built.segs[i].start_ms

\* C2: the returned cues are ascending by start_ms and do not overlap: each
\* cue starts at or after the previous cue's start and end (the final-cue
\* extension included, built being the value returned).
C2_SortedNonOverlapping ==
    SegsReturned =>
        \A i \in 1..(Len(built.segs) - 1) :
            /\ built.segs[i + 1].start_ms >= built.segs[i].start_ms
            /\ built.segs[i + 1].start_ms >= built.segs[i].end_ms

\* two sentences given out of order and overlapping, both kept, the last
\* one extended to the end of the audio
C2_Witness ==
    /\ SegsReturned
    /\ Len(built.segs) = 2
    /\ Len(res.sentence_info) = 2
    /\ res.sentence_info[2].start < res.sentence_info[1].start
    /\ res.sentence_info[1].start < res.sentence_info[2].end
    /\ \A k \in 1..2 : res.sentence_info[k].start < res.sentence_info[k].end
    /\ LET a == AudioMs(audio_dur_us)
           swept == Sweep(SortSegs(CollectSegs(res.sentence_info, a)), 0, a)
       IN  /\ a - swept[2].end_ms >= TailGapMs
           /\ built.segs[2].end_ms = a

\* C3: for a non-negative duration every returned cue has start_ms >= 0 and
\* end_ms <= the duration rounded to integer milliseconds.
C3_WithinMedia ==
    SegsReturned /\ audio_dur_us >= 0 =>
        \A i \in 1..Len(built.segs) :
            /\ built.segs[i].start_ms >= 0
            /\ built.segs[i].end_ms <= AudioMs(audio_dur_us)

\* a kept sentence that starts before 0 and one that ends after the media
C3_Witness ==
    /\ SegsReturned
    /\ Len(built.segs) = 2
    /\ Len(res.sentence_info) = 2
    /\ res.sentence_info[1].start < 0
    /\ res.sentence_info[2].end > AudioMs(audio_dur_us)
    /\ AudioMs(audio_dur_us) > 0

TokenMode(r) ==
    r.wellformed /\ ~SentenceMode(r) /\ r.has_timestamp /\ r.timestamp # <<>>

----------------------------------------------------------------------------
(* Properties of the Timestamp Formatter, checked under FmtSpec *)

Digits == {DigitChar(d) : d \in 0..9}

DigitVal(c) == CHOOSE d \in 0..9 : DigitChar(d) = c

RECURSIVE ToNat(_)
ToNat(s) ==
    IF s = <<>> THEN 0
    ELSE 10 * ToNat(SubSeq(s, 1, Len(s) - 1)) + DigitVal(s[Len(s)])

AllDigits(s) == \A k \in 1..Len(s) : s[k] \in Digits

\* C6: for ms >= 0 the output is HH:MM:SS,mmm with two or more hour digits,
\* two minute digits below 60, two second digits below 60, three millisecond
\* digits, and the fields add up to ms again.
C6_FormatRoundTrip ==
    ms_in >= 0 /\ formatted # <<>> =>
        LET n == Len(formatted)
            hh == SubSeq(formatted, 1, n - 10)
            mm == SubSeq(formatted, n - 8, n - 7)
            ss == SubSeq(formatted, n - 5, n - 4)
            mmm == SubSeq(formatted, n - 2, n)
        IN  /\ n >= 12
            /\ formatted[n - 9] = ":" /\ formatted[n - 6] = ":" /\ formatted[n - 3] = ","
            /\ AllDigits(hh) /\ AllDigits(mm) /\ AllDigits(ss) /\ AllDigits(mmm)
            /\ ToNat(mm) < 60 /\ ToNat(ss) < 60
            /\ ToNat(hh) * 3600000 + ToNat(mm) * 60000 + ToNat(ss) * 1000 + ToNat(mmm)
                   = ms_in

\* more than a day, three hour digits, every field non-zero
C6_Witness ==
    /\ formatted # <<>>
    /\ Len(formatted) = 13
    /\ ms_in % 1000 = 999
    /\ (ms_in % 60000) \div 1000 = 59
    /\ (ms_in % 3600000) \div 60000 = 59

----------------------------------------------------------------------------
(* Properties of the Subtitle Codec, checked under CodecSpec *)

CueInvariants(segs) ==
    \A i \in 1..Len(segs) :
        /\ segs[i].text # <<>>
        /\ norm_text(segs[i].text) = segs[i].text
        /\ \A k \in 1..Len(segs[i].text) : segs[i].text[k] # "\n"
        /\ segs[i].start_ms >= 0
        /\ segs[i].end_ms > segs[i].start_ms

\* C5: for cues that keep the cue invariants, parse_srt of what write_srt
\* stored gives one entry per cue, in order, with index "1".."n", the cue's
\* 'start --> end' string and the cue's text.
C5_RoundTrip ==
    codec_pc = "parsed" /\ CueInvariants(cues) =>
        parsed = [i \in 1..Len(cues) |->
                     Subtitle(Dec(i),
                              srt_time(cues[i].start_ms) \o Arrow
                                  \o srt_time(cues[i].end_ms),
                              cues[i].text, cues[i].text)]

C5_Witness ==
    /\ codec_pc = "parsed"
    /\ Len(cues) = 2
    /\ CueInvariants(cues)
    /\ cues[1].text # cues[2].text
    /\ Len(parsed) = 2

----------------------------------------------------------------------------
(* Properties of the Correction Merger, checked under MergeSpec *)

Matches(i) == {k \in 1..Len(corrections.items) :
                  corrections.items[k].index = subtitles[i].index}

MergeKeepsCues ==
    /\ merged.status = "returned"
    /\ Len(merged.subs) = Len(subtitles)
    /\ \A i \in 1..Len(subtitles) :
           /\ merged.subs[i].index = subtitles[i].index
           /\ merged.subs[i].timestamp = subtitles[i].timestamp
           /\ merged.subs[i].original = subtitles[i].original
           /\ Matches(i) = {} => merged.subs[i].corrected = subtitles[i].original

\* C4 as stated: same length and order, index, timestamp and original kept;
\* an unmatched cue has corrected = original; a cue whose index equals a
\* record's index has that record's corrected text; no error.
C4_MergeByIndex ==
    merged # NotMerged =>
        /\ MergeKeepsCues
        /\ \A i \in 1..Len(subtitles) : \A k \in Matches(i) :
               merged.subs[i].corrected = corrections.items[k].corrected

\* C4 as amended: a cue whose index equals a record's index has the
\* corrected text of the last such record of the list.
C4_MergeByLastIndex ==
    merged # NotMerged =>
        /\ MergeKeepsCues
        /\ \A i \in 1..Len(subtitles) : \A k \in Matches(i) :
               (\A m \in Matches(i) : m <= k) =>
                   merged.subs[i].corrected = corrections.items[k].corrected

\* cue "1" has two records with different texts, cue "01" has none although
\* a record "1" exists, and record "2" matches no cue
C4_Witness ==
    /\ merged # NotMerged
    /\ Len(subtitles) = 2
    /\ subtitles[1].index = <<"1">>
    /\ subtitles[2].index = <<"0", "1">>
    /\ Len(corrections.items) = 3
    /\ corrections.items[1].index = <<"1">>
    /\ corrections.items[2].index = <<"2">>
    /\ corrections.items[3].index = <<"1">>
    /\ corrections.items[1].corrected # corrections.items[3].corrected
    /\ merged.subs[1].corrected = corrections.items[3].corrected
    /\ merged.subs[2].corrected = subtitles[2].original

----------------------------------------------------------------------------
(* Properties of the batch programs, checked under Spec and FairSpec.  The *)
(* locals of a per-file call stay readable at pc = "loop" until the next   *)
(* call starts.                                                            *)

NeitherTiming(r) == r.wellformed /\ ~SentenceMode(r) /\ ~r.has_timestamp

NoSentenceInfoError == "RuntimeError: no sentence_info"

\* C7: a recognizer result with neither sentence-level timing nor token
\* timestamps ends the file's processing in the Segment Builder's
\* missing-timing error; write_srt is never reached and no subtitle file is
\* written by that call.
C7_MissingTimingFails ==
    mode = "generate" /\ NeitherTiming(res) =>
        /\ pc \in {"g_segments", "loop", "done"}
        /\ blob = <<>>
        /\ pc = "g_segments" => built = Pending
        /\ pc \in {"loop", "done"} =>
               /\ built = Raised(NoSentenceInfoError)
               /\ outcome = [file |-> files[idx - 1], result |-> NoSentenceInfoError,
                             srt |-> FALSE, report |-> FALSE]

\* the first of two files ended this way
C7_Witness ==
    /\ mode = "generate"
    /\ NeitherTiming(res)
    /\ pc = "loop"
    /\ Len(files) = 2 /\ idx = 2
    /\ outcome.result = NoSentenceInfoError

AttemptsPrefix ==
    /\ Len(attempts) <= Len(files)
    /\ attempts = SubSeq(files, 1, Len(attempts))

Ended == pc \in {"done", "exit0", "exit1"}

\* C8: in both batch loops the files are attempted once each, in list order
\* (the attempts are always a prefix of the list), the loop ends only with
\* every file attempted, and it does end with every file attempted, whatever
\* failed on the way.
C8_BatchIsolation ==
    /\ [](AttemptsPrefix /\ (pc = "done" => attempts = files))
    /\ <>[](Ended /\ attempts = files)

\* the second file's call is running after the first one failed
C8_Witness ==
    /\ Len(files) = 2
    /\ attempts = files
    /\ idx = 2
    /\ pc \in {"g_recognize", "o_call"}
    /\ outcome.file = files[1]
    /\ outcome.result \notin {"ok", "none"}

ProperRecords(c) ==
    /\ c.kind = "list"
    /\ \A k \in 1..Len(c.items) :
           c.items[k].isdict /\ c.items[k].has_index /\ c.items[k].has_corrected

\* not valid JSON, valid JSON that is no object, 'corrections' no list of
\* records, or a record without 'index' or 'corrected'
Malformed(r) ==
    \/ r.json \in {"invalid", "array", "scalar"}
    \/ r.json = "object" /\ r.has_corrections /\ ~ProperRecords(r.corrections)

\* C9: after a response without the expected structure, optimize_srt has
\* gone on with zero corrections and the failure note as summary, and has
\* written the corrected subtitle file, with the input cues' texts, and the
\* report (a write the file system refused apart).
C9_MalformedDegrades ==
    mode = "optimize" /\ pc = "loop" /\ Malformed(response)
        /\ outcome.result # "OSError" =>
        /\ outcome.result = "ok"
        /\ outcome.srt /\ outcome.report
        /\ corrections = JsonList(<<>>)
        /\ summary = ParseFailedNote
        /\ parse_srt(opt_blob) = subtitles

\* C11: with ffmpeg or ffprobe missing the subtitle-generation run stops
\* before any file is processed: no per-file call is started (so the check
\* is never made for a second file) and nothing is put on disk.
C11_ToolCheckUpfront ==
    mode = "generate" /\ ~tools_ok =>
        /\ attempts = <<>>
        /\ pc \notin {"g_check", "g_extract", "g_probe", "g_recognize",
                      "g_segments", "g_write"}
        /\ wavs = {} /\ srts = {}

\* C12: the temporary audio of a file is gone when the file's processing
\* has ended, by success or by failure: between two files, at the start of
\* the next file's call and after the batch no temporary audio is on disk.
C12_TempAudioRemoved ==
    mode = "generate" /\ pc \in {"loop", "g_check", "done", "exit0", "exit1"} =>
        wavs = {}

----------------------------------------------------------------------------
(* The final-cue extension, checked under SegSpec *)

\* the cues as they are after the sweep, before the final-cue extension
SweptSegs ==
    LET a == AudioMs(audio_dur_us)
    IN  Sweep(SortSegs(CollectSegs(res.sentence_info, a)), 0, a)

\* C13: the returned cues are the swept cues, the last one's end_ms set to
\* the media duration exactly when it trailed the media end by 800 ms or more
\* and unchanged otherwise; no other cue and no other field differs, and a
\* non-empty result ends less than 800 ms before the media end.
C13_FinalCueExtension ==
    SegsReturned /\ built.segs # <<>> =>
        LET a == AudioMs(audio_dur_us)
            swept == SweptSegs
            n == Len(swept)
        IN  /\ Len(built.segs) = n
            /\ \A i \in 1..(n - 1) : built.segs[i] = swept[i]
            /\ built.segs[n].start_ms = swept[n].start_ms
            /\ built.segs[n].text = swept[n].text
            /\ a - swept[n].end_ms >= 800 => built.segs[n].end_ms = a
            /\ a - swept[n].end_ms < 800 =>
                   built.segs[n].end_ms = swept[n].end_ms
            /\ a - built.segs[n].end_ms < 800

\* two cues, the second one ending exactly 800 ms before the media end and
\* extended, the first one as the sweep left it
C13_Witness ==
    /\ SegsReturned
    /\ Len(built.segs) = 2
    /\ AudioMs(audio_dur_us) - SweptSegs[2].end_ms = 800
    /\ built.segs[2].end_ms = AudioMs(audio_dur_us)
    /\ built.segs[1] = SweptSegs[1]
    /\ built.segs[1].end_ms < SweptSegs[2].end_ms

====
